---- MODULE Spec2Model ----
(***************************************************************************)
(* Model of generatePDF (src/main.ts) of the PVC banner generator.         *)
(*                                                                         *)
(* Every coordinate of the program is a JavaScript Number, i.e. an IEEE    *)
(* 754 binary64 value, and every +, -, *, / rounds to nearest-even.  The   *)
(* model keeps that arithmetic: a Number is a record                       *)
(*      [neg |-> BOOLEAN, m |-> natural, e |-> Int]   of value m * 2^e     *)
(* with a 53 bit significand (2^52 <= m < 2^53, or m = 0), and the         *)
(* operators FAdd, FSub, FMul, FDiv round the exact result as the          *)
(* hardware does.  Naturals wider than 31 bits are little-endian           *)
(* sequences of 15 bit limbs.  Subnormals, infinities and NaN are out of   *)
(* the range of the inputs that are modelled.                              *)
(***************************************************************************)
EXTENDS Integers, Sequences, FiniteSets, TLC

----------------------------------------------------------------------------
(* Naturals of any width: <<>> is 0, limbs least significant first, the    *)
(* most significant limb is never 0.  An operator that reads an argument   *)
(* more than once first binds its value (x \in {a}), so that the argument  *)
(* is evaluated once.                                                      *)

Base == 2^15

\* the element of a one-element set
The(S) == CHOOSE r \in S : TRUE

RECURSIVE BNormAt(_, _)
BNormAt(a, n) ==
  IF n = 0 THEN <<>>
  ELSE IF a[n] = 0 THEN BNormAt(a, n - 1) ELSE SubSeq(a, 1, n)

BNorm(a) == The({ BNormAt(x, Len(x)) : x \in {a} })

RECURSIVE BFromNat(_)
BFromNat(n) == IF n = 0 THEN <<>> ELSE <<n % Base>> \o BFromNat(n \div Base)

Limb(a, i) == IF i >= 1 /\ i <= Len(a) THEN a[i] ELSE 0

RECURSIVE BCmpAt(_, _, _)
BCmpAt(a, b, i) ==
  IF i = 0 THEN 0
  ELSE IF a[i] > b[i] THEN 1
  ELSE IF a[i] < b[i] THEN -1
  ELSE BCmpAt(a, b, i - 1)

\* -1, 0, 1 as a < b, a = b, a > b
BCmp(a, b) ==
  The({ IF Len(x) > Len(y) THEN 1
        ELSE IF Len(x) < Len(y) THEN -1
        ELSE BCmpAt(x, y, Len(x)) : x \in {a}, y \in {b} })

RECURSIVE BAddAt(_, _, _, _, _, _)
BAddAt(a, b, i, n, carry, acc) ==
  IF i > n THEN (IF carry = 0 THEN acc ELSE Append(acc, carry))
  ELSE The({ BAddAt(a, b, i + 1, n, s \div Base, Append(acc, s % Base)) :
             s \in {Limb(a, i) + Limb(b, i) + carry} })

BAdd(a, b) ==
  The({ BAddAt(x, y, 1, IF Len(x) > Len(y) THEN Len(x) ELSE Len(y), 0, <<>>) :
        x \in {a}, y \in {b} })

RECURSIVE BSubAt(_, _, _, _, _)
BSubAt(a, b, i, borrow, acc) ==
  IF i > Len(a) THEN acc
  ELSE The({ IF s < 0 THEN BSubAt(a, b, i + 1, 1, Append(acc, s + Base))
             ELSE BSubAt(a, b, i + 1, 0, Append(acc, s)) :
             s \in {a[i] - Limb(b, i) - borrow} })

\* a - b for a >= b
BSub(a, b) == The({ BNorm(BSubAt(x, y, 1, 0, <<>>)) : x \in {a}, y \in {b} })

RECURSIVE BMulSmallAt(_, _, _, _, _)
BMulSmallAt(a, k, i, carry, acc) ==
  IF i > Len(a) THEN (IF carry = 0 THEN acc ELSE Append(acc, carry))
  ELSE The({ BMulSmallAt(a, k, i + 1, p \div Base, Append(acc, p % Base)) :
             p \in {a[i] * k + carry} })

\* a * k for 0 <= k < Base
BMulSmall(a, k) ==
  The({ IF y = 0 \/ x = <<>> THEN <<>> ELSE BMulSmallAt(x, y, 1, 0, <<>>) :
        x \in {a}, y \in {k} })

Zeros(n) == [i \in 1..n |-> 0]

\* a * 2^k
BShl(a, k) ==
  The({ IF x = <<>> THEN <<>>
        ELSE Zeros(y \div 15) \o BMulSmall(x, 2^(y % 15)) : x \in {a}, y \in {k} })

RECURSIVE BMulAt(_, _, _, _)
BMulAt(a, b, i, acc) ==
  IF i > Len(b) THEN acc
  ELSE The({ BMulAt(a, b, i + 1, t) :
             t \in {BAdd(acc, BShl(BMulSmall(a, b[i]), 15 * (i - 1)))} })

BMul(a, b) ==
  The({ IF x = <<>> \/ y = <<>> THEN <<>> ELSE BMulAt(x, y, 1, <<>>) :
        x \in {a}, y \in {b} })

RECURSIVE SmallBitLen(_)
SmallBitLen(n) == IF n = 0 THEN 0 ELSE 1 + SmallBitLen(n \div 2)

BBitLen(a) ==
  The({ IF x = <<>> THEN 0 ELSE 15 * (Len(x) - 1) + SmallBitLen(x[Len(x)]) :
        x \in {a} })

\* bit i of a, bit 0 the least significant
BBit(a, i) == The({ (Limb(a, (j \div 15) + 1) \div (2^(j % 15))) % 2 : j \in {i} })

RECURSIVE BDivSmallAt(_, _, _, _, _)
BDivSmallAt(a, k, i, rem, acc) ==
  IF i = 0 THEN [q |-> acc, r |-> rem]
  ELSE The({ BDivSmallAt(a, k, i - 1, cur % k, <<cur \div k>> \o acc) :
             cur \in {rem * Base + a[i]} })

\* quotient and remainder of a by k, 0 < k <= Base
BDivSmall(a, k) ==
  The({ [q |-> BNorm(d.q), r |-> d.r] :
        d \in { BDivSmallAt(x, y, Len(x), 0, <<>>) : x \in {a}, y \in {k} } })

\* floor(a / 2^k)
BShr(a, k) ==
  The({ IF y \div 15 >= Len(x) THEN <<>>
        ELSE BDivSmall(SubSeq(x, (y \div 15) + 1, Len(x)), 2^(y % 15)).q :
        x \in {a}, y \in {k} })

\* the low k bits of a are all 0
BLowZero(a, k) ==
  The({ /\ \A i \in 1..(y \div 15) : Limb(x, i) = 0
        /\ Limb(x, (y \div 15) + 1) % (2^(y % 15)) = 0 : x \in {a}, y \in {k} })

BOdd(a) == Limb(a, 1) % 2 = 1

\* One quotient limb of the schoolbook division: the largest q < Base with
\* q * d <= r, for r < d * Base and d with its top limb >= Base / 2.  The
\* estimate from the two top limbs is at most 2 too large.
RECURSIVE QFix(_, _, _)
QFix(r, d, q) ==
  IF BCmp(BMulSmall(d, q), r) = 1 THEN QFix(r, d, q - 1) ELSE q

QDigit(r, d) ==
  The({ QFix(r, d, IF est > Base - 1 THEN Base - 1 ELSE est) :
        est \in {(Limb(r, Len(d) + 1) * Base + Limb(r, Len(d))) \div d[Len(d)]} })

RECURSIVE BDivAt(_, _, _, _, _)
BDivAt(a, d, i, rem, acc) ==
  IF i = 0 THEN [q |-> acc, r |-> rem]
  ELSE The({ The({ BDivAt(a, d, i - 1, BSub(cur, BMulSmall(d, qd)), <<qd>> \o acc) :
                   qd \in {QDigit(cur, d)} }) :
             cur \in {BNorm(<<a[i]>> \o rem)} })

\* floor(a / d) and whether the division is exact, d > 0
BDiv(a, d) ==
  The({ IF Len(y) = 1
        THEN The({ [q |-> s.q, exact |-> s.r = 0] : s \in {BDivSmall(x, y[1])} })
        ELSE The({ [q |-> BNorm(l.q), exact |-> l.r = <<>>] :
                   l \in { BDivAt(u, v, Len(u), <<>>, <<>>) :
                           u \in {BShl(x, 15 - SmallBitLen(y[Len(y)]))},
                           v \in {BShl(y, 15 - SmallBitLen(y[Len(y)]))} } }) :
        x \in {a}, y \in {d} })

----------------------------------------------------------------------------
(* IEEE 754 binary64 (the JavaScript Number type), round to nearest, ties  *)
(* to even.                                                                *)

Zero == [neg |-> FALSE, m |-> <<>>, e |-> 0]

\* q is n without its low s bits; round it by the bits that were dropped
RoundAt(neg, n, sticky, e, s, q) ==
  The({ IF BBitLen(m) = 54
        THEN [neg |-> neg, m |-> BShr(m, 1), e |-> e + s + 1]
        ELSE [neg |-> neg, m |-> m, e |-> e + s] :
        m \in { IF BBit(n, s - 1) = 1 /\ (sticky \/ ~BLowZero(n, s - 1) \/ BOdd(q))
                THEN BAdd(q, <<1>>) ELSE q } })

\* The binary64 nearest to (n + s) * 2^e, where 0 <= s < 1 and s > 0 iff sticky.
Round(neg, n, sticky, e) ==
  The({ IF x = <<>> THEN Zero
        ELSE IF len <= 53
        THEN [neg |-> sg, m |-> BShl(x, 53 - len), e |-> ex - (53 - len)]
        ELSE The({ RoundAt(sg, x, st, ex, len - 53, q) : q \in {BShr(x, len - 53)} }) :
        x \in {n}, len \in {BBitLen(n)}, sg \in {neg}, st \in {sticky}, ex \in {e} })

\* The binary64 nearest to (n / d) * 2^e, d > 0.
RoundRat(neg, n, d, e) ==
  The({ IF x = <<>> THEN Zero
        ELSE The({ Round(neg, dv.q, ~dv.exact, e - k) :
                   dv \in {BDiv(BShl(x, k), y)} }) :
        x \in {n}, y \in {d},
        k \in { IF 55 + BBitLen(d) - BBitLen(n) > 0
                THEN 55 + BBitLen(d) - BBitLen(n) ELSE 0 } })

\* The Number of an integer literal or integer value.
FromInt(i) ==
  The({ Round(j < 0, BFromNat(IF j < 0 THEN -j ELSE j), FALSE, 0) : j \in {i} })

\* The Number of a decimal literal n / d (for instance 25.4 is Dec(254, 10)).
Dec(n, d) == RoundRat(FALSE, BFromNat(n), BFromNat(d), 0)

FNeg(a) == The({ IF x.m = <<>> THEN x ELSE [x EXCEPT !.neg = ~x.neg] : x \in {a} })

\* the sum of x and y of significands u and v aligned to the exponent lo
FAddAt(x, y, u, v, lo) ==
  IF x.neg = y.neg THEN Round(x.neg, BAdd(u, v), FALSE, lo)
  ELSE The({ IF c = 0 THEN Zero
             ELSE IF c = 1 THEN Round(x.neg, BSub(u, v), FALSE, lo)
             ELSE Round(y.neg, BSub(v, u), FALSE, lo) : c \in {BCmp(u, v)} })

\* a + b
FAdd(a, b) ==
  The({ IF x.m = <<>> THEN y
        ELSE IF y.m = <<>> THEN x
        ELSE The({ The({ FAddAt(x, y, u, v, lo) :
                         u \in {BShl(x.m, x.e - lo)}, v \in {BShl(y.m, y.e - lo)} }) :
                   lo \in {IF x.e < y.e THEN x.e ELSE y.e} }) :
        x \in {a}, y \in {b} })

\* a - b
FSub(a, b) == FAdd(a, FNeg(b))

\* a * b
FMul(a, b) ==
  The({ IF x.m = <<>> \/ y.m = <<>> THEN Zero
        ELSE Round(x.neg # y.neg, BMul(x.m, y.m), FALSE, x.e + y.e) :
        x \in {a}, y \in {b} })

\* a / b, b # 0
FDiv(a, b) ==
  The({ IF x.m = <<>> THEN Zero ELSE RoundRat(x.neg # y.neg, x.m, y.m, x.e - y.e) :
        x \in {a}, y \in {b} })

\* -1, 0, 1 as a < b, a = b, a > b
FCmp(a, b) ==
  The({ IF d.m = <<>> THEN 0 ELSE IF d.neg THEN -1 ELSE 1 : d \in {FSub(a, b)} })

\* a >= b
FGeq(a, b) == FCmp(a, b) >= 0

RECURSIVE BToNat(_)
BToNat(a) == IF a = <<>> THEN 0 ELSE a[1] + Base * BToNat(Tail(a))

\* Math.floor(a) for 0 <= a < 2^30, as an integer
FFloor(a) ==
  The({ IF x.m = <<>> THEN 0
        ELSE IF x.e >= 0 THEN BToNat(BShl(x.m, x.e))
        ELSE BToNat(BShr(x.m, -x.e)) : x \in {a} })

----------------------------------------------------------------------------
(* The program: src/main.ts                                                *)

VARIABLES
  pc,          \* the statement generatePDF is about to execute
  args,        \* the arguments of generatePDF
  page,        \* page.getSize(): width and height in points
  fg,          \* getColor(foregroundColor), destructured
  bg,          \* getColor(backgroundColor), destructured
  tried,       \* the font loading steps attempted so far, with their outcome
  customFont,  \* the font embedded, "none" before
  ops,         \* the primitives issued to the page, in order
  lines,       \* text.split('\n')
  lineWidths,  \* the measured width of each line
  measured,    \* the calls of widthOfTextAtSize: line index and font
  startY,      \* baseline of the first line
  index,       \* position of the running loop over the lines
  pdfBytes,    \* number of serialisations of the document
  files        \* the writes to the output path

vars == <<pc, args, page, fg, bg, tried, customFont, ops, lines, lineWidths,
          measured, startY, index, pdfBytes, files>>

\* mm / 25.4 * 72
mmToPoints(mm) == FMul(FDiv(mm, Dec(254, 10)), FromInt(72))

marginMm == 25
borderThickness == Dec(5, 10)
circleRadiusMm == 6
circleOffsetMm == Dec(375, 10)
minDistanceMm == 500

\* The colour table, components in hundredths.
colors ==
  [ black   |-> <<0, 0, 0, 100>>,     white   |-> <<0, 0, 0, 0>>,
    red     |-> <<0, 100, 100, 0>>,   blue    |-> <<100, 0, 0, 0>>,
    yellow  |-> <<0, 0, 100, 0>>,     green   |-> <<100, 0, 100, 0>>,
    orange  |-> <<0, 50, 100, 0>>,    purple  |-> <<50, 100, 0, 0>>,
    pink    |-> <<0, 70, 20, 0>>,     cyan    |-> <<100, 0, 20, 0>>,
    magenta |-> <<0, 100, 0, 0>>,     lime    |-> <<50, 0, 100, 0>>,
    navy    |-> <<100, 50, 0, 20>>,   maroon  |-> <<20, 100, 100, 20>>,
    teal    |-> <<100, 20, 50, 0>>,   olive   |-> <<30, 20, 100, 10>>,
    silver  |-> <<0, 0, 0, 25>>,      gold    |-> <<0, 20, 80, 10>> ]

ColorNames == DOMAIN colors

\* colors is an object literal: a key it does not own is looked up on
\* Object.prototype, whose members are functions (and, for __proto__, the
\* prototype object itself).
ObjectPrototypeKeys ==
  { "constructor", "toString", "toLocaleString", "valueOf", "hasOwnProperty",
    "isPrototypeOf", "propertyIsEnumerable", "__proto__" }

\* colors[colorName]
Lookup(colorName) ==
  IF colorName \in ColorNames THEN [kind |-> "array", v |-> colors[colorName]]
  ELSE IF colorName = "__proto__" THEN [kind |-> "object"]
  ELSE IF colorName \in ObjectPrototypeKeys THEN [kind |-> "function"]
  ELSE [kind |-> "undefined"]

\* colors[colorName] || colors['black']: undefined is the only falsy result
getColor(colorName) ==
  IF Lookup(colorName).kind = "undefined" THEN Lookup("black") ELSE Lookup(colorName)

\* const [c, m, y, k] = value  succeeds on an array only
Iterable(value) == value.kind = "array"

\* text.split('\n')
RECURSIVE SplitFrom(_, _)
SplitFrom(text, cur) ==
  IF text = <<>> THEN <<cur>>
  ELSE IF Head(text) = "\n" THEN <<cur>> \o SplitFrom(Tail(text), <<>>)
  ELSE SplitFrom(Tail(text), Append(cur, Head(text)))

Split(text) == SplitFrom(text, <<>>)

CustomFontFile == "DejaVuSansCondensed-Bold.ttf"
SystemFontFile == "/usr/share/fonts/truetype/dejavu/DejaVuSans-Bold.ttf"
HelveticaBold  == "Helvetica-Bold"

\* The font metrics of the library: the advance of a line in 1/1000 em is the
\* sum of the advances of its glyphs, which depend on the font.
GlyphAdvance(font) ==
  IF font = CustomFontFile THEN 697
  ELSE IF font = SystemFontFile THEN 774
  ELSE 722

\* font.widthOfTextAtSize(line, size)
widthOfTextAtSize(font, line, size) ==
  FMul(FromInt(Len(line) * GlyphAdvance(font)), FDiv(size, FromInt(1000)))

margin       == mmToPoints(FromInt(marginMm))
circleRadius == mmToPoints(FromInt(circleRadiusMm))
circleOffset == mmToPoints(circleOffsetMm)
minDistance  == mmToPoints(FromInt(minDistanceMm))

white == <<0, 0, 0, 0>>

\* page.drawCircle({x, y, size: circleRadius, color: cmyk(fg)})
Circle(x, y, color) ==
  [kind |-> "circle", x |-> x, y |-> y, size |-> circleRadius, color |-> color]

\* a slip: the upper right corner repeats the y of the lower right corner
cornerPositionsCopied(width, height) ==
  << [x |-> circleOffset,               y |-> circleOffset],
     [x |-> FSub(width, circleOffset),  y |-> circleOffset],
     [x |-> circleOffset,               y |-> FSub(height, circleOffset)],
     [x |-> FSub(width, circleOffset),  y |-> circleOffset] >>

cornerPositions(width, height) ==
  << [x |-> circleOffset,               y |-> circleOffset],
     [x |-> FSub(width, circleOffset),  y |-> circleOffset],
     [x |-> circleOffset,               y |-> FSub(height, circleOffset)],
     [x |-> FSub(width, circleOffset),  y |-> FSub(height, circleOffset)] >>

\* the distance between the corner circles of an edge of the given length
cornerDistance(length) == FSub(length, FMul(FromInt(2), circleOffset))

\* Math.floor(distance / minDistance) behind the guard distance >= minDistance
numIntermediateCircles(distance) ==
  IF FGeq(distance, minDistance) THEN FFloor(FDiv(distance, minDistance)) ELSE 0

\* distance / (numIntermediateCircles + 1)
spacingOf(distance) ==
  FDiv(distance, FromInt(numIntermediateCircles(distance) + 1))

\* a slip: the positions are counted from the page edge
intermediateAtFromEdge(distance, i) ==
  FMul(FromInt(i), spacingOf(distance))

\* circleOffset + i * spacing
intermediateAt(distance, i) ==
  FAdd(circleOffset, FMul(FromInt(i), spacingOf(distance)))

\* the circles of the loop over the two horizontal edges: top, then bottom
RECURSIVE horizontalCircles(_, _, _, _)
horizontalCircles(width, height, color, i) ==
  LET d == cornerDistance(width) IN
  IF i > numIntermediateCircles(d) THEN <<>>
  ELSE << Circle(intermediateAt(d, i), FSub(height, circleOffset), color),
          Circle(intermediateAt(d, i), circleOffset, color) >>
       \o horizontalCircles(width, height, color, i + 1)

\* the circles of the loop over the two vertical edges: left, then right
RECURSIVE verticalCircles(_, _, _, _)
verticalCircles(width, height, color, i) ==
  LET d == cornerDistance(height) IN
  IF i > numIntermediateCircles(d) THEN <<>>
  ELSE << Circle(circleOffset, intermediateAt(d, i), color),
          Circle(FSub(width, circleOffset), intermediateAt(d, i), color) >>
       \o verticalCircles(width, height, color, i + 1)

\* text layout, lines 220-260
fontSizeOf(fontSizeMm) == mmToPoints(FromInt(fontSizeMm))
lineSpacingOf(fontSize) == FMul(fontSize, Dec(13, 10))

\* a slip: the block is taken to be one line high
totalTextHeightOneLine(totalLines, fontSize) == fontSize

totalTextHeight(totalLines, fontSize) ==
  FAdd(FMul(FromInt(totalLines - 1), lineSpacingOf(fontSize)), fontSize)

\* a slip: the half line adjustment is left out
startYOfNoHalfLine(centerText, height, totalLines, fontSize) ==
  IF centerText
  THEN FSub(FAdd(FDiv(height, FromInt(2)),
                 FDiv(totalTextHeight(totalLines, fontSize), FromInt(2))),
            FMul(fontSize, Dec(35, 100)))
  ELSE FSub(height, mmToPoints(FromInt(25)))

startYOf(centerText, height, totalLines, fontSize) ==
  IF centerText
  THEN LET middleOfPage       == FDiv(height, FromInt(2))
           totalBlockHeight   == totalTextHeight(totalLines, fontSize)
           halfLineHeight     == FMul(lineSpacingOf(fontSize), Dec(5, 10))
           visualCenterOffset == FMul(fontSize, Dec(35, 100))
       IN  FSub(FSub(FAdd(middleOfPage, FDiv(totalBlockHeight, FromInt(2))),
                     visualCenterOffset),
                halfLineHeight)
  ELSE FSub(height, mmToPoints(FromInt(25)))

\* a slip: the lines go up the page
lineYOfUp(start, i, fontSize) == FAdd(start, FMul(FromInt(i), lineSpacingOf(fontSize)))

\* index is the 0-based index of forEach
lineYOf(start, i, fontSize) == FSub(start, FMul(FromInt(i), lineSpacingOf(fontSize)))

\* a slip: every line is centred by the width of the first line
lineXOfFirst(centerText, width, widths, i) ==
  IF centerText THEN FDiv(FSub(width, widths[1]), FromInt(2))
  ELSE mmToPoints(FromInt(marginMm + 5))

\* a slip: the 5 mm past the frame are left out
lineXOfNoIndent(centerText, width, widths, i) ==
  IF centerText THEN FDiv(FSub(width, widths[i + 1]), FromInt(2))
  ELSE mmToPoints(FromInt(marginMm))

lineXOf(centerText, width, widths, i) ==
  IF centerText THEN FDiv(FSub(width, widths[i + 1]), FromInt(2))
  ELSE mmToPoints(FromInt(marginMm + 5))

----------------------------------------------------------------------------
(* The arguments that are explored.  Each group of arguments is varied     *)
(* around the defaults of the command line (lines 301-308).                *)

MaxTextLen == 3

Chars == {"A", "\n"}

Texts == UNION { [1..n -> Chars] : n \in 0..MaxTextLen }

Widths  == {40, 575, 1000, 3000, 5000}
Heights == {40, 500, 575, 700, 1200}
FontSizes == {8, 25}

UnknownColors == {"brown", "Black", ""} \cup ObjectPrototypeKeys

Default ==
  [ text |-> <<"A", "A">>, widthMm |-> 1000, heightMm |-> 700, centerText |-> TRUE,
    fontSizeMm |-> 25, foregroundColor |-> "black", backgroundColor |-> "yellow" ]

GeometryInputs ==
  { [Default EXCEPT !.widthMm = w, !.heightMm = h] : w \in Widths, h \in Heights }

TextInputs ==
  { [Default EXCEPT !.text = t, !.centerText = c, !.fontSizeMm = f, !.heightMm = h] :
      t \in Texts, c \in BOOLEAN, f \in FontSizes, h \in {40, 700} }

ColorInputs ==
  { [Default EXCEPT !.foregroundColor = c] : c \in ColorNames \cup UnknownColors }
  \cup { [Default EXCEPT !.backgroundColor = c] : c \in ColorNames \cup UnknownColors }

Inputs == GeometryInputs \cup TextInputs \cup ColorInputs

Init ==
  /\ pc = "start"
  /\ args \in Inputs
  /\ page = [width |-> Zero, height |-> Zero]
  /\ fg = <<>>
  /\ bg = <<>>
  /\ tried = <<>>
  /\ customFont = "none"
  /\ ops = <<>>
  /\ lines = <<>>
  /\ lineWidths = <<>>
  /\ measured = <<>>
  /\ startY = Zero
  /\ index = 0
  /\ pdfBytes = 0
  /\ files = <<>>

\* lines 69-76: the document and its one page
CreatePage ==
  /\ pc = "start"
  /\ page' = [ width  |-> mmToPoints(FromInt(args.widthMm)),
               height |-> mmToPoints(FromInt(args.heightMm)) ]
  /\ pc' = "getColor"
  /\ UNCHANGED <<args, fg, bg, tried, customFont, ops, lines, lineWidths,
                 measured, startY, index, pdfBytes, files>>

\* lines 79-80: a value that is no array makes the destructuring throw, and
\* generatePDF rejects
ResolveColors ==
  /\ pc = "getColor"
  /\ LET f == getColor(args.foregroundColor)
         b == getColor(args.backgroundColor)
     IN  IF Iterable(f) /\ Iterable(b)
         THEN fg' = f.v /\ bg' = b.v /\ pc' = "loadCustom"
         ELSE pc' = "threw" /\ UNCHANGED <<fg, bg>>
  /\ UNCHANGED <<args, page, tried, customFont, ops, lines, lineWidths,
                 measured, startY, index, pdfBytes, files>>

\* lines 84-88: readFile or embedFont of the custom font file may throw
LoadCustomFont ==
  /\ pc = "loadCustom"
  /\ \E outcome \in {"ok", "readFailed", "embedFailed"} :
       /\ tried' = Append(tried, [font |-> CustomFontFile, ok |-> outcome = "ok"])
       /\ IF outcome = "ok"
          THEN customFont' = CustomFontFile /\ pc' = "background"
          ELSE customFont' = customFont /\ pc' = "loadSystem"
  /\ UNCHANGED <<args, page, fg, bg, ops, lines, lineWidths, measured, startY,
                 index, pdfBytes, files>>

\* a slip: the first catch goes straight to the built-in font
LoadSystemFontSkipped ==
  /\ pc = "loadSystem"
  /\ pc' = "loadHelvetica"
  /\ UNCHANGED <<args, page, fg, bg, tried, customFont, ops, lines, lineWidths,
                 measured, startY, index, pdfBytes, files>>

\* lines 89-94: the system font file, inside the first catch
LoadSystemFont ==
  /\ pc = "loadSystem"
  /\ \E outcome \in {"ok", "readFailed", "embedFailed"} :
       /\ tried' = Append(tried, [font |-> SystemFontFile, ok |-> outcome = "ok"])
       /\ IF outcome = "ok"
          THEN customFont' = SystemFontFile /\ pc' = "background"
          ELSE customFont' = customFont /\ pc' = "loadHelvetica"
  /\ UNCHANGED <<args, page, fg, bg, ops, lines, lineWidths, measured, startY,
                 index, pdfBytes, files>>

\* lines 95-96: the built-in font, inside the second catch
LoadHelvetica ==
  /\ pc = "loadHelvetica"
  /\ tried' = Append(tried, [font |-> HelveticaBold, ok |-> TRUE])
  /\ customFont' = HelveticaBold
  /\ pc' = "background"
  /\ UNCHANGED <<args, page, fg, bg, ops, lines, lineWidths, measured, startY,
                 index, pdfBytes, files>>

\* lines 102-108
DrawBackground ==
  /\ pc = "background"
  /\ ops' = Append(ops, [ kind |-> "rectangle", x |-> Zero, y |-> Zero,
                          width |-> page.width, height |-> page.height,
                          color |-> white ])
  /\ pc' = "panel"
  /\ UNCHANGED <<args, page, fg, bg, tried, customFont, lines, lineWidths,
                 measured, startY, index, pdfBytes, files>>

\* a slip that is a validation: a negative dimension is replaced by 0
panelRectangleClamped(width, height, color, borderColor) ==
  [ kind |-> "rectangle", x |-> margin, y |-> margin,
    width  |-> IF FGeq(width, FMul(FromInt(2), margin))
               THEN FSub(width, FMul(FromInt(2), margin)) ELSE Zero,
    height |-> IF FGeq(height, FMul(FromInt(2), margin))
               THEN FSub(height, FMul(FromInt(2), margin)) ELSE Zero,
    color |-> color, borderColor |-> borderColor,
    borderWidth |-> mmToPoints(borderThickness) ]

\* the rectangle of lines 111-126
panelRectangle(width, height, color, borderColor) ==
  [ kind |-> "rectangle", x |-> margin, y |-> margin,
    width  |-> FSub(width, FMul(FromInt(2), margin)),
    height |-> FSub(height, FMul(FromInt(2), margin)),
    color |-> color, borderColor |-> borderColor,
    borderWidth |-> mmToPoints(borderThickness) ]

DrawPanel ==
  /\ pc = "panel"
  /\ ops' = Append(ops, panelRectangle(page.width, page.height, bg, fg))
  /\ pc' = "corners"
  /\ UNCHANGED <<args, page, fg, bg, tried, customFont, lines, lineWidths,
                 measured, startY, index, pdfBytes, files>>

\* lines 129-147
DrawCorners ==
  /\ pc = "corners"
  /\ ops' = ops \o [ i \in 1..4 |->
                     Circle(cornerPositions(page.width, page.height)[i].x,
                            cornerPositions(page.width, page.height)[i].y, fg) ]
  /\ pc' = "horizontal"
  /\ UNCHANGED <<args, page, fg, bg, tried, customFont, lines, lineWidths,
                 measured, startY, index, pdfBytes, files>>

\* lines 150-184
DrawHorizontal ==
  /\ pc = "horizontal"
  /\ ops' = ops \o horizontalCircles(page.width, page.height, fg, 1)
  /\ pc' = "vertical"
  /\ UNCHANGED <<args, page, fg, bg, tried, customFont, lines, lineWidths,
                 measured, startY, index, pdfBytes, files>>

\* lines 187-217
DrawVertical ==
  /\ pc = "vertical"
  /\ ops' = ops \o verticalCircles(page.width, page.height, fg, 1)
  /\ pc' = "split"
  /\ UNCHANGED <<args, page, fg, bg, tried, customFont, lines, lineWidths,
                 measured, startY, index, pdfBytes, files>>

\* lines 220-227
SplitText ==
  /\ pc = "split"
  /\ lines' = Split(args.text)
  /\ index' = 0
  /\ pc' = "measure"
  /\ UNCHANGED <<args, page, fg, bg, tried, customFont, ops, lineWidths,
                 measured, startY, pdfBytes, files>>

\* lines 230-232: one callback of lines.map
MeasureLine ==
  /\ pc = "measure"
  /\ index < Len(lines)
  /\ lineWidths' = Append(lineWidths,
       widthOfTextAtSize(customFont, lines[index + 1], fontSizeOf(args.fontSizeMm)))
  /\ measured' = Append(measured, [line |-> index, font |-> customFont])
  /\ index' = index + 1
  /\ UNCHANGED <<pc, args, page, fg, bg, tried, customFont, ops, lines, startY,
                 pdfBytes, files>>

\* lines 235-260
ComputeStartY ==
  /\ pc = "measure"
  /\ index = Len(lines)
  /\ startY' = startYOf(args.centerText, page.height, Len(lines),
                        fontSizeOf(args.fontSizeMm))
  /\ index' = 0
  /\ pc' = "draw"
  /\ UNCHANGED <<args, page, fg, bg, tried, customFont, ops, lines, lineWidths,
                 measured, pdfBytes, files>>

\* lines 263-286: one callback of lines.forEach
DrawLine ==
  /\ pc = "draw"
  /\ index < Len(lines)
  /\ ops' = Append(ops,
       [ kind |-> "text", text |-> lines[index + 1],
         x |-> lineXOf(args.centerText, page.width, lineWidths, index),
         y |-> lineYOf(startY, index, fontSizeOf(args.fontSizeMm)),
         font |-> customFont, size |-> fontSizeOf(args.fontSizeMm), color |-> fg ])
  /\ index' = index + 1
  /\ UNCHANGED <<pc, args, page, fg, bg, tried, customFont, lines, lineWidths,
                 measured, startY, pdfBytes, files>>

\* a slip: the document is serialized while lines remain to be drawn
SaveEarly ==
  /\ pc = "draw"
  /\ pdfBytes' = pdfBytes + 1
  /\ pc' = "write"
  /\ UNCHANGED <<args, page, fg, bg, tried, customFont, ops, lines, lineWidths,
                 measured, startY, index, files>>

\* line 289
Save ==
  /\ pc = "draw"
  /\ index = Len(lines)
  /\ pdfBytes' = pdfBytes + 1
  /\ pc' = "write"
  /\ UNCHANGED <<args, page, fg, bg, tried, customFont, ops, lines, lineWidths,
                 measured, startY, index, files>>

\* line 290
WriteFile ==
  /\ pc = "write"
  /\ files' = Append(files, Len(ops))
  /\ pc' = "done"
  /\ UNCHANGED <<args, page, fg, bg, tried, customFont, ops, lines, lineWidths,
                 measured, startY, index, pdfBytes>>

Next ==
  \/ CreatePage
  \/ ResolveColors
  \/ LoadCustomFont
  \/ LoadSystemFont
  \/ LoadHelvetica
  \/ DrawBackground
  \/ DrawPanel
  \/ DrawCorners
  \/ DrawHorizontal
  \/ DrawVertical
  \/ SplitText
  \/ MeasureLine
  \/ ComputeStartY
  \/ DrawLine
  \/ Save
  \/ WriteFile

Spec == Init /\ [][Next]_vars

----------------------------------------------------------------------------
(* Comparing a Number with an exact rational.  The program computes in     *)
(* binary64, the documentation in exact millimetres: a coordinate agrees   *)
(* with its documented value when the two differ by at most 10^-9 point.   *)

Abs(i) == IF i < 0 THEN -i ELSE i
Pos(i) == IF i > 0 THEN i ELSE 0

\* a - b of two signed naturals [neg, mag]
SignedSub(a, b) ==
  The({ IF x.neg # y.neg THEN [neg |-> x.neg, mag |-> BAdd(x.mag, y.mag)]
        ELSE IF BCmp(x.mag, y.mag) >= 0 THEN [neg |-> x.neg, mag |-> BSub(x.mag, y.mag)]
        ELSE [neg |-> ~x.neg, mag |-> BSub(y.mag, x.mag)] : x \in {a}, y \in {b} })

\* (x - n/d) * d * 2^k exactly, k = Pos(-x.e), for d > 0
Excess(x, n, d) ==
  SignedSub([neg |-> x.neg, mag |-> BShl(BMul(x.m, BFromNat(d)), Pos(x.e))],
            [neg |-> n < 0, mag |-> BShl(BFromNat(Abs(n)), Pos(-x.e))])

\* |x - n/d| <= 10^-9
Within(x, n, d) ==
  The({ BCmp(BMul(ex.mag, BFromNat(10^9)), BShl(BFromNat(d), Pos(-v.e))) <= 0 :
        v \in {x}, ex \in {Excess(x, n, d)} })

\* x >= n/d - 10^-9
AtLeast(x, n, d) ==
  The({ ex.mag = <<>> \/ ~ex.neg \/ Within(v, n, d) :
        v \in {x}, ex \in {Excess(x, n, d)} })

\* the documented value of mm = n/d millimetres in points is n*360 / (d*127)
WithinMm(x, n, d) == Within(x, n * 360, d * 127)

----------------------------------------------------------------------------
(* What the page holds.                                                    *)

IsCircle(o) == o.kind = "circle"
IsText(o)   == o.kind = "text"

circlesDrawn == SelectSeq(ops, IsCircle)
textRuns     == SelectSeq(ops, IsText)

\* the statements after the loop of the named step have been reached
After(step) ==
  LET order == << "start", "getColor", "loadCustom", "loadSystem", "loadHelvetica",
                  "background", "panel", "corners", "horizontal", "vertical",
                  "split", "measure", "draw", "write", "done" >>
      at(p) == CHOOSE i \in 1..Len(order) : order[i] = p
  IN  pc # "threw" /\ at(pc) > at(step)

\* the circles after the four corner circles
intermediates == SubSeq(circlesDrawn, 5, Len(circlesDrawn))

OnTop(o)    == WithinMm(o.y, 2 * args.heightMm - 75, 2) /\ ~WithinMm(o.x, 75, 2)
                 /\ ~WithinMm(o.x, 2 * args.widthMm - 75, 2)
OnBottom(o) == WithinMm(o.y, 75, 2) /\ ~WithinMm(o.x, 75, 2)
                 /\ ~WithinMm(o.x, 2 * args.widthMm - 75, 2)
OnLeft(o)   == WithinMm(o.x, 75, 2) /\ ~WithinMm(o.y, 75, 2)
                 /\ ~WithinMm(o.y, 2 * args.heightMm - 75, 2)
OnRight(o)  == WithinMm(o.x, 2 * args.widthMm - 75, 2) /\ ~WithinMm(o.y, 75, 2)
                 /\ ~WithinMm(o.y, 2 * args.heightMm - 75, 2)

Xs(s) == [i \in 1..Len(s) |-> s[i].x]
Ys(s) == [i \in 1..Len(s) |-> s[i].y]

\* the intermediate circles of each edge, by their coordinate along the edge
topEdge    == Xs(SelectSeq(intermediates, OnTop))
bottomEdge == Xs(SelectSeq(intermediates, OnBottom))
leftEdge   == Ys(SelectSeq(intermediates, OnLeft))
rightEdge  == Ys(SelectSeq(intermediates, OnRight))

\* The documented distribution along an edge of a banner dimension of
\* dimMm millimetres: span = dimMm - 2 * 37.5.
SpanMm(dimMm) == dimMm - 75

DocumentedCount(dimMm) ==
  IF SpanMm(dimMm) < minDistanceMm THEN 0 ELSE SpanMm(dimMm) \div minDistanceMm

\* the i-th circle is documented at 37.5 + i * span / (count + 1) mm
AtDocumentedPosition(x, dimMm, i) ==
  WithinMm(x, 75 * (DocumentedCount(dimMm) + 1) + 2 * i * SpanMm(dimMm),
              2 * (DocumentedCount(dimMm) + 1))

AsDocumented(edge, dimMm) ==
  /\ Len(edge) = DocumentedCount(dimMm)
  /\ \A i \in 1..Len(edge) : AtDocumentedPosition(edge[i], dimMm, i)

\* C1: once the circles are drawn, each of the two edges of an axis holds
\* exactly 0 intermediate circles when span < 500 mm and floor(span / 500)
\* when span >= 500 mm, the i-th at 37.5 + i * span / (count + 1) mm.
C1_IntermediateCircles ==
  After("vertical") =>
    /\ AsDocumented(topEdge, args.widthMm)
    /\ AsDocumented(bottomEdge, args.widthMm)
    /\ AsDocumented(leftEdge, args.heightMm)
    /\ AsDocumented(rightEdge, args.heightMm)

\* every two adjacent circles of an edge, its corner circles at lo and hi
\* included, are at least 500 mm apart
SpacedAtLeastMin(edge, lo, hi) ==
  LET all == <<lo>> \o edge \o <<hi>>
  IN  \A i \in 1..(Len(all) - 1) :
        AtLeast(FSub(all[i + 1], all[i]), minDistanceMm * 360, 127)

\* C2: on an edge that holds intermediate circles, any two adjacent circles
\* (corner to first, intermediate to intermediate, last to corner) are at
\* least 500 mm apart.
C2_MinimumSpacing ==
  After("vertical") =>
    /\ Len(topEdge) > 0 =>
         SpacedAtLeastMin(topEdge, circlesDrawn[3].x, circlesDrawn[4].x)
    /\ Len(bottomEdge) > 0 =>
         SpacedAtLeastMin(bottomEdge, circlesDrawn[1].x, circlesDrawn[2].x)
    /\ Len(leftEdge) > 0 =>
         SpacedAtLeastMin(leftEdge, circlesDrawn[1].y, circlesDrawn[3].y)
    /\ Len(rightEdge) > 0 =>
         SpacedAtLeastMin(rightEdge, circlesDrawn[2].y, circlesDrawn[4].y)

\* |a|
FAbs(a) == The({ [x EXCEPT !.neg = FALSE] : x \in {a} })

\* the smaller of a and b
FMin(a, b) == The({ IF FGeq(x, y) THEN y ELSE x : x \in {a}, y \in {b} })

\* the distance of the coordinate c from the nearer of the two page edges
\* 0 and length of its axis
NearestEdgeDistance(c, length) == FMin(FAbs(c), FAbs(FSub(length, c)))

\* the four corner circles are the first four circles, at (37.5, 37.5),
\* (W - 37.5, 37.5), (37.5, H - 37.5), (W - 37.5, H - 37.5) mm
CornersAtOffsets ==
  /\ Len(circlesDrawn) >= 4
  /\ pc = "horizontal" => Len(circlesDrawn) = 4
  /\ WithinMm(circlesDrawn[1].x, 75, 2)
  /\ WithinMm(circlesDrawn[1].y, 75, 2)
  /\ WithinMm(circlesDrawn[2].x, 2 * args.widthMm - 75, 2)
  /\ WithinMm(circlesDrawn[2].y, 75, 2)
  /\ WithinMm(circlesDrawn[3].x, 75, 2)
  /\ WithinMm(circlesDrawn[3].y, 2 * args.heightMm - 75, 2)
  /\ WithinMm(circlesDrawn[4].x, 2 * args.widthMm - 75, 2)
  /\ WithinMm(circlesDrawn[4].y, 2 * args.heightMm - 75, 2)

\* C3 as claimed: four corner circles at the offsets, each 37.5 mm from
\* each of its two nearest page edges, for banners of every size.
C3_NearestEdges ==
  After("corners") =>
    /\ CornersAtOffsets
    /\ \A i \in 1..4 :
         /\ WithinMm(NearestEdgeDistance(circlesDrawn[i].x, page.width), 75, 2)
         /\ WithinMm(NearestEdgeDistance(circlesDrawn[i].y, page.height), 75, 2)

\* C3 amended: four corner circles at the offsets, each 37.5 mm from the two
\* page edges that meet at its own corner (left or right, bottom or top);
\* on a banner of at least 75 mm both ways these are its nearest edges.
C3_CornerCircles ==
  After("corners") =>
    /\ CornersAtOffsets
    /\ WithinMm(circlesDrawn[1].x, 75, 2)
    /\ WithinMm(circlesDrawn[1].y, 75, 2)
    /\ WithinMm(FSub(page.width, circlesDrawn[2].x), 75, 2)
    /\ WithinMm(circlesDrawn[2].y, 75, 2)
    /\ WithinMm(circlesDrawn[3].x, 75, 2)
    /\ WithinMm(FSub(page.height, circlesDrawn[3].y), 75, 2)
    /\ WithinMm(FSub(page.width, circlesDrawn[4].x), 75, 2)
    /\ WithinMm(FSub(page.height, circlesDrawn[4].y), 75, 2)
    /\ (args.widthMm >= 75 /\ args.heightMm >= 75) =>
         \A i \in 1..4 :
           /\ WithinMm(NearestEdgeDistance(circlesDrawn[i].x, page.width), 75, 2)
           /\ WithinMm(NearestEdgeDistance(circlesDrawn[i].y, page.height), 75, 2)

\* the corner circles of a banner narrower and lower than twice the offset
C3_Witness ==
  After("corners") /\ args.widthMm < 75 /\ args.heightMm < 75 /\ Len(circlesDrawn) = 4

\* C4: a name outside the 18 of the table resolves to the tuple of black,
\* (0, 0, 0, 1), and neither getColor nor the destructuring raises.
C4_UnknownColorIsBlack ==
  pc \notin {"start", "getColor"} =>
    /\ args.foregroundColor \notin ColorNames =>
         pc # "threw" /\ fg = <<0, 0, 0, 100>> /\ fg = getColor("black").v
    /\ args.backgroundColor \notin ColorNames =>
         pc # "threw" /\ bg = <<0, 0, 0, 100>> /\ bg = getColor("black").v

\* the number of line breaks of the input text
LineBreaks == Cardinality({ i \in DOMAIN args.text : args.text[i] = "\n" })

\* the strings of s joined by line breaks
RECURSIVE Join(_)
Join(s) ==
  IF Len(s) = 0 THEN <<>>
  ELSE IF Len(s) = 1 THEN s[1]
  ELSE s[1] \o <<"\n">> \o Join(Tail(s))

Texts_(s) == [i \in 1..Len(s) |-> s[i].text]

\* C5: a text of k line breaks is drawn as k + 1 runs in input order, run i
\* (from 0) at y = startY - i * lineSpacing, lineSpacing = 1.3 * fontSize, so
\* that y decreases by lineSpacing from each run to the next.
C5_TextRuns ==
  After("draw") =>
    /\ Len(textRuns) = LineBreaks + 1
    /\ Join(Texts_(textRuns)) = args.text
    /\ \A j \in 1..Len(textRuns) :
         WithinMm(FSub(startY, textRuns[j].y), 13 * (j - 1) * args.fontSizeMm, 10)
    /\ \A j \in 1..(Len(textRuns) - 1) :
         /\ FCmp(textRuns[j].y, textRuns[j + 1].y) = 1
         /\ WithinMm(FSub(textRuns[j].y, textRuns[j + 1].y), 13 * args.fontSizeMm, 10)

\* a text of two line breaks, drawn
C5_Witness ==
  After("draw") /\ LineBreaks = 2 /\ Len(textRuns) = 3

\* C6: centred, the baseline of the first line is
\*   pageHeight/2 + totalTextHeight/2 - 0.35*fontSize - 0.5*lineSpacing,
\* totalTextHeight = (n-1)*lineSpacing + fontSize, lineSpacing = 1.3*fontSize.
\* In hundredths of a millimetre, with n = k + 1 lines:
\*   50*H + ((n-1)*65*F + 50*F) - 35*F - 65*F.
C6_CenteredStartY ==
  (After("measure") /\ args.centerText) =>
    WithinMm(startY,
             50 * args.heightMm
               + (LineBreaks * 65 * args.fontSizeMm + 50 * args.fontSizeMm)
               - 35 * args.fontSizeMm - 65 * args.fontSizeMm,
             100)

\* the first baseline of a centred text of three lines
C6_Witness ==
  After("measure") /\ args.centerText /\ LineBreaks = 2 /\ startY # Zero

\* C7: centred, run i is at lineX = (pageWidth - lineWidth_i) / 2 with the
\* width measured for that very line; every line is measured exactly once,
\* with the font it is drawn with, and before the first run is drawn.
C7_CenteredLineX ==
  /\ Len(measured) = Len(lineWidths)
  /\ \A j \in 1..Len(measured) : measured[j].line = j - 1
  /\ Len(textRuns) > 0 => Len(measured) = LineBreaks + 1
  /\ After("split") /\ pc # "measure" => Len(measured) = LineBreaks + 1
  /\ \A j \in 1..Len(textRuns) :
       /\ measured[j].font = textRuns[j].font
       /\ lineWidths[j] =
            widthOfTextAtSize(textRuns[j].font, textRuns[j].text, textRuns[j].size)
       /\ args.centerText =>
            FAdd(textRuns[j].x, textRuns[j].x) = FSub(page.width, lineWidths[j])

\* two centred runs of different measured widths
C7_Witness ==
  /\ After("draw") /\ args.centerText
  /\ Len(textRuns) >= 2
  /\ lineWidths[1] # lineWidths[2]
  /\ textRuns[1].x # textRuns[2].x

\* C8: left-aligned, the first baseline is at pageHeight - 25 mm and every
\* run is at x = 25 mm + 5 mm = 30 mm; the position of run i (from 0) is
\* (30 mm, pageHeight - 25 mm - i * 1.3 * fontSize), whatever was measured.
C8_LeftAligned ==
  (After("measure") /\ ~args.centerText) =>
    /\ WithinMm(startY, args.heightMm - 25, 1)
    /\ \A j \in 1..Len(textRuns) :
         /\ WithinMm(textRuns[j].x, 30, 1)
         /\ textRuns[j].x = textRuns[1].x
         /\ WithinMm(textRuns[j].y,
                     10 * (args.heightMm - 25) - 13 * (j - 1) * args.fontSizeMm, 10)

\* two left-aligned runs of different measured widths
C8_Witness ==
  /\ After("draw") /\ ~args.centerText
  /\ Len(textRuns) >= 2
  /\ lineWidths[1] # lineWidths[2]

\* the order of the font loading steps
Chain == <<CustomFontFile, SystemFontFile, HelveticaBold>>

\* C9: the fonts are tried in the order custom file, system file, built-in
\* font; a step is tried only after every earlier step failed and is tried
\* whenever they all failed; a failed step never ends generatePDF; one font
\* is selected, and every line is measured and drawn with it.
C9_FontFallback ==
  /\ Len(tried) <= 3
  /\ \A i \in 1..Len(tried) : tried[i].font = Chain[i]
  /\ \A i \in 1..(Len(tried) - 1) : ~tried[i].ok
  /\ pc = "threw" => tried = <<>>
  /\ pc = "loadSystem" => Len(tried) = 1 /\ ~tried[1].ok
  /\ pc = "loadHelvetica" => Len(tried) = 2 /\ ~tried[2].ok
  /\ (pc \in {"start", "getColor", "threw", "loadCustom", "loadSystem", "loadHelvetica"})
       => customFont = "none"
  /\ After("loadHelvetica") =>
       /\ Len(tried) >= 1
       /\ tried[Len(tried)].ok
       /\ customFont = tried[Len(tried)].font
  /\ \A j \in 1..Len(measured) : measured[j].font = customFont
  /\ \A j \in 1..Len(textRuns) : textRuns[j].font = customFont

\* both font files failed and the text is drawn with the built-in font
C9_Witness ==
  /\ pc = "done" /\ Len(tried) = 3
  /\ Len(textRuns) >= 1 /\ textRuns[1].font = HelveticaBold

\* the second primitive is the panel rectangle
panel == ops[2]

\* C10: the panel rectangle is at x = y = 25 mm, width_mm - 50 by
\* height_mm - 50, with a border of 0.5 mm; a zero or negative dimension
\* is passed on as it is, nothing is raised once drawing has begun, and the
\* run goes on to the circles, the text and the one write of the output.
C10_PanelRectangle ==
  /\ After("panel") =>
       /\ panel.kind = "rectangle"
       /\ WithinMm(panel.x, 25, 1)
       /\ WithinMm(panel.y, 25, 1)
       /\ WithinMm(panel.width, args.widthMm - 50, 1)
       /\ WithinMm(panel.height, args.heightMm - 50, 1)
       /\ WithinMm(panel.borderWidth, 1, 2)
       /\ panel.width.neg = (args.widthMm < 50)
       /\ panel.height.neg = (args.heightMm < 50)
  /\ pc = "threw" => ops = <<>>
  /\ pc \notin {"done", "threw"} => ENABLED Next
  /\ pc = "done" =>
       /\ Len(circlesDrawn) >= 4
       /\ Len(textRuns) >= 1
       /\ pdfBytes = 1
       /\ files = <<Len(ops)>>

\* a finished banner smaller than its margins
C10_Witness ==
  /\ pc = "done" /\ args.widthMm < 50 /\ args.heightMm < 50
  /\ panel.width.neg /\ panel.height.neg
  /\ files # <<>>

\* a coordinate at one of the two corner offsets of a dimension
AtOffset(c, dimMm) == WithinMm(c, 75, 2) \/ WithinMm(c, 2 * dimMm - 75, 2)

\* The layer of a primitive: 1 the full-page background, 2 the panel,
\* 3 a corner circle, 4 an intermediate circle of a horizontal edge,
\* 5 one of a vertical edge, 6 a line of text; 0 is none of these.
LayerOf(o) ==
  IF o.kind = "rectangle"
    THEN IF o.x = Zero /\ o.y = Zero /\ o.width = page.width /\ o.height = page.height
           THEN 1 ELSE 2
  ELSE IF o.kind = "text" THEN 6
  ELSE IF AtOffset(o.x, args.widthMm) /\ AtOffset(o.y, args.heightMm) THEN 3
  ELSE IF OnTop(o) \/ OnBottom(o) THEN 4
  ELSE IF OnLeft(o) \/ OnRight(o) THEN 5
  ELSE 0

Layers == [i \in 1..Len(ops) |-> LayerOf(ops[i])]

\* background, panel, four corners, then the layers in ascending order
Layered(L) ==
  /\ \A i \in 1..Len(L) : L[i] >= 1
  /\ \A i \in 1..(Len(L) - 1) : L[i] <= L[i + 1]
  /\ Len(L) >= 1 => L[1] = 1
  /\ Len(L) >= 2 => L[2] = 2
  /\ Len(L) >= 3 => L[3] = 3
  /\ Cardinality({ i \in 1..Len(L) : L[i] = 3 }) \in {0, 4}

\* C11: the primitives are issued in the order background, panel, corner
\* circles, horizontal intermediates, vertical intermediates, text lines;
\* the document is serialized once, after the last line of text, and written
\* once, after that; no primitive is issued once it is serialized.
C11_DrawOrderAndSave ==
  /\ [](/\ \A L \in {Layers} : Layered(L)
        /\ pdfBytes = (IF pc \in {"write", "done"} THEN 1 ELSE 0)
        /\ files = (IF pc = "done" THEN <<Len(ops)>> ELSE <<>>)
        /\ pc = "done" => Layers[Len(ops)] = 6)
  /\ [][/\ pdfBytes >= 1 => ops' = ops
        /\ pdfBytes' # pdfBytes => /\ Len(textRuns) = Len(lines)
                                   /\ Len(lines) >= 1
                                   /\ files = <<>>
        /\ files' # files => pdfBytes = 1]_vars

\* a finished banner with circles on all four edges and two lines of text
C11_Witness ==
  /\ pc = "done" /\ pdfBytes = 1 /\ files = <<Len(ops)>>
  /\ topEdge # <<>> /\ leftEdge # <<>> /\ Len(textRuns) >= 2

\* The intermediate circles of one edge, by their coordinate along it, on a
\* banner dimension of dimMm millimetres and length points: the i-th of n
\* is at 37.5 + i * span / (n + 1) mm, strictly between the two corner
\* circles, and the i-th and the (n + 1 - i)-th add up to the dimension.
MirrorSymmetric(edge, dimMm, length) ==
  \A e \in {edge} : \A i \in 1..Len(e) :
    /\ WithinMm(e[i], 75 * (Len(e) + 1) + 2 * i * SpanMm(dimMm), 2 * (Len(e) + 1))
    /\ WithinMm(FAdd(e[i], e[Len(e) + 1 - i]), dimMm, 1)
    /\ FCmp(e[i], circleOffset) > 0
    /\ FCmp(e[i], FSub(length, circleOffset)) < 0

\* C12: on an axis that holds intermediate circles, their positions
\* p_i = 37.5 + i * span / (count + 1) are mirror-symmetric about the page
\* centre, p_i + p_(count+1-i) = D, and interior to the corner circles,
\* 37.5 < p_i < D - 37.5; the two opposite edges of the axis hold the very
\* same coordinates.  Stated of the page as the two loops leave it and of
\* the page that is written.
C12_MirrorSymmetry ==
  pc \in {"split", "done"} =>
    \A t \in {topEdge}, b \in {bottomEdge}, l \in {leftEdge}, r \in {rightEdge} :
      /\ t = b
      /\ l = r
      /\ MirrorSymmetric(t, args.widthMm, page.width)
      /\ MirrorSymmetric(l, args.heightMm, page.height)
      /\ Len(intermediates) = 2 * Len(t) + 2 * Len(l)

\* five circles on each horizontal edge and two on each vertical edge
C12_Witness ==
  /\ After("vertical")
  /\ Len(topEdge) = 5 /\ Len(bottomEdge) = 5
  /\ Len(leftEdge) = 2 /\ Len(rightEdge) = 2

\* C13: centred, the midpoint between the baselines of the first and of the
\* last line, startY - (n-1)*lineSpacing/2, is pageHeight/2 - 0.5*fontSize
\* for every number n >= 1 of lines: the anchor of the block does not
\* depend on the number of lines.
C13_AnchorIndependentOfLines ==
  /\ (After("measure") /\ args.centerText) =>
       WithinMm(FSub(startY,
                     FDiv(FMul(FromInt(Len(lines) - 1),
                               lineSpacingOf(fontSizeOf(args.fontSizeMm))),
                          FromInt(2))),
                args.heightMm - args.fontSizeMm, 2)
  /\ (After("draw") /\ args.centerText) =>
       /\ Len(textRuns) = Len(lines)
       /\ WithinMm(FAdd(textRuns[1].y, textRuns[Len(textRuns)].y),
                   args.heightMm - args.fontSizeMm, 1)

\* a finished centred text of four lines
C13_Witness ==
  /\ pc = "done" /\ args.centerText
  /\ Len(lines) = 4 /\ Len(textRuns) = 4
  /\ textRuns[1].y # textRuns[4].y

====
